---------------------------- MODULE Spec2Model ----------------------------
(***************************************************************************)
(* calenJO: a photographed month calendar is turned into dated events.     *)
(*                                                                         *)
(* The module models                                                       *)
(*   - parseCalendarFromOCR and its helpers (the reconstruction of the     *)
(*     month every recognised fragment belongs to),                        *)
(*   - CanvasStrategy.detectRedRegions / findCluster (flood fill),         *)
(*   - mergeOverlappingRegions (both strategies share its text),           *)
(*   - extractTextFromRegions (the OCR of the detected regions), and       *)
(*   - CalendarProcessor.handleImageUpload, which runs them in turn.       *)
(*                                                                         *)
(* Texts are sequences of one-character strings; the regular expressions   *)
(* of the source are operators over such sequences.                        *)
(***************************************************************************)
EXTENDS Integers, Sequences, FiniteSets, TLC

VARIABLES
    \* ---- parseCalendarFromOCR ----
    ocrResults,       \* the argument: fragments in the order they were supplied
    year, month,      \* the requested month
    calendarType,     \* "standard" | "jojo"
    sortedResults,    \* the canonical order computed by the call
    datesWithWeeks,   \* the Map built by assignWeekIndices (index -> DateInfo)
    i,                \* loop index into sortedResults (1-based here)
    tracker,          \* the month tracking state: lastDay, currentWeek and the flags
    events,           \* the events pushed so far
    pc,               \* position of the call
    dated,            \* history: what the loop decided for the last dated fragment
    parsedData,       \* the ParsedCalendarData the call returned
    \* ---- mergeOverlappingRegions ----
    regions,          \* the argument
    mi,               \* outer loop index (1-based)
    current,          \* the region being grown
    used,             \* Set<number> of consumed indices
    merged,           \* the output list (what detectRedRegions returns, too)
    mpc,              \* position inside mergeOverlappingRegions
    \* ---- detectRedRegions ----
    image,            \* the ImageData: <<x, y>> -> <<r, g, b>>
    visited,          \* Set<number> of visited pixels, as <<x, y>>
    stack,            \* findCluster's stack
    box,              \* findCluster's minX, maxX, minY, maxY
    scan,             \* position of the scan, <<x, y>>
    found,            \* regions pushed by the scan
    dpc,              \* position inside detectRedRegions
    \* ---- extractTextFromRegions ----
    ocrRegions,       \* the argument: the regions to recognise
    tesseract,        \* what Tesseract.recognize does for each region
    ri,               \* loop index into the regions (1-based)
    ocrOutput,        \* the OCRResult list built so far (results)
    opc,              \* position of the call
    \* ---- CalendarProcessor.handleImageUpload ----
    selectedCalendarType, \* the calendarType argument (the uploader's selection)
    processingState,  \* the ProcessingState: status and progress
    eventsState,      \* the component's events state (useState, line 25)
    statusLog,        \* history: the statuses set so far, in order
    upc               \* position of the handler

parseVars  == <<ocrResults, year, month, calendarType, sortedResults,
                datesWithWeeks, i, tracker, events, pc, dated, parsedData>>
mergeVars  == <<regions, mi, current, used, merged, mpc>>
detectVars == <<image, visited, stack, box, scan, found, dpc>>
ocrVars    == <<ocrRegions, tesseract, ri, ocrOutput, opc>>
uploadVars == <<selectedCalendarType, processingState, eventsState, statusLog, upc>>
vars == <<parseVars, mergeVars, detectVars, ocrVars, uploadVars>>

---------------------------------------------------------------------------
(* Characters and the regular expressions of the parser                    *)

DigitChars == <<"0", "1", "2", "3", "4", "5", "6", "7", "8", "9">>
Digits == {DigitChars[k] : k \in 1..10}
Letters == {"A", "B", "C", "D", "E", "F", "G", "H", "I", "J", "K", "L", "M",
            "N", "O", "P", "Q", "R", "S", "T", "U", "V", "W", "X", "Y", "Z",
            "a", "b", "c", "d", "e", "f", "g", "h", "i", "j", "k", "l", "m",
            "n", "o", "p", "q", "r", "s", "t", "u", "v", "w", "x", "y", "z"}
\* \w of the source's regular expressions
WordChars == Digits \cup Letters \cup {"_"}
\* \s of the source's regular expressions (the ones OCR text can hold)
SpaceChars == {" ", "\n", "\t"}
\* the glyphs of /[moon glyphs]/u; one stands for the character class
MoonChars == {"moon"}

IsDigit(c) == c \in Digits
IsWord(c)  == c \in WordChars
IsSpace(c) == c \in SpaceChars

DigitValue(c) == CHOOSE n \in 0..9 : DigitChars[n + 1] = c

Abs(n) == IF n < 0 THEN -n ELSE n
Min2(a, b) == IF a <= b THEN a ELSE b
Max2(a, b) == IF a >= b THEN a ELSE b
SetMin(S) == CHOOSE m \in S : \A n \in S : m <= n

\* Length (0, 1 or 2) of a match of /\b\d{1,2}\b/ that starts at p; 0: no match.
TokenLen(text, p) ==
    IF ~(IsDigit(text[p]) /\ (p = 1 \/ ~IsWord(text[p - 1]))) THEN 0
    ELSE IF p + 1 <= Len(text) /\ IsDigit(text[p + 1])
              /\ (p + 1 = Len(text) \/ ~IsWord(text[p + 2])) THEN 2
    ELSE IF p = Len(text) \/ ~IsWord(text[p + 1]) THEN 1
    ELSE 0

\* text.match(/\b(\d{1,2})\b/): position of the first match, 0 when null
DateMatch(text) ==
    LET ps == {p \in 1..Len(text) : TokenLen(text, p) > 0}
    IN IF ps = {} THEN 0 ELSE SetMin(ps)

\* parseInt(dateMatch[1], 10)
ParseDay(text) ==
    LET p == DateMatch(text)
    IN IF TokenLen(text, p) = 2
       THEN 10 * DigitValue(text[p]) + DigitValue(text[p + 1])
       ELSE DigitValue(text[p])

\* String.prototype.trim
RECURSIVE TrimLeft(_)
TrimLeft(t) == IF t # <<>> /\ IsSpace(Head(t)) THEN TrimLeft(Tail(t)) ELSE t
RECURSIVE TrimRight(_)
TrimRight(t) ==
    IF t # <<>> /\ IsSpace(t[Len(t)]) THEN TrimRight(SubSeq(t, 1, Len(t) - 1)) ELSE t
Trim(t) == TrimRight(TrimLeft(t))

\* text.replace(/\b\d{1,2}\b/, '').trim()
AfterDate(text) ==
    LET p == DateMatch(text)
    IN IF p = 0 THEN Trim(text)
       ELSE Trim(SubSeq(text, 1, p - 1) \o SubSeq(text, p + TokenLen(text, p), Len(text)))

\* replace(/\s+/g, ' '): every run of white space becomes one blank
RECURSIVE CollapseSpaces(_)
CollapseSpaces(t) ==
    IF t = <<>> THEN <<>>
    ELSE IF IsSpace(Head(t))
         THEN <<" ">> \o CollapseSpaces(TrimLeft(t))
         ELSE <<Head(t)>> \o CollapseSpaces(Tail(t))

IsTitleChar(c) == IsWord(c) \/ IsSpace(c) \/ c \in {"-", ":"}

cleanEventText(text) == Trim(CollapseSpaces(SelectSeq(text, IsTitleChar)))

\* nextText.match(/^\d{1,2}$/)
IsJustANumber(text) ==
    /\ Len(text) \in {1, 2}
    /\ \A k \in 1..Len(text) : IsDigit(text[k])

\* /C/i.test(text)
HasC(text) == \E k \in 1..Len(text) : text[k] \in {"C", "c"}
\* /[moon glyphs]/u.test(text)
HasMoon(text) == \E k \in 1..Len(text) : text[k] \in MoonChars


---------------------------------------------------------------------------
(* extractTimeFromText: /(\d{1,2}):(\d{2})\s*(AM|PM|am|pm)?/gi             *)

At(t, p) == IF p >= 1 /\ p <= Len(t) THEN t[p] ELSE "eof"

\* number of white-space characters of t from position p on
RECURSIVE SpaceRun(_, _)
SpaceRun(t, p) == IF IsSpace(At(t, p)) THEN 1 + SpaceRun(t, p + 1) ELSE 0

\* The match of the time expression that starts at p: its length (0: none),
\* where the hour's digits end, and the period letter ("A", "P" or "").
TimeMatchAt(t, p) ==
    LET hlen == IF IsDigit(At(t, p)) /\ IsDigit(At(t, p + 1)) /\ At(t, p + 2) = ":" THEN 2
                ELSE IF IsDigit(At(t, p)) /\ At(t, p + 1) = ":" THEN 1
                ELSE 0
        c == p + hlen                       \* the colon
        ok == hlen > 0 /\ IsDigit(At(t, c + 1)) /\ IsDigit(At(t, c + 2))
        sp == SpaceRun(t, c + 3)
        q == c + 3 + sp                     \* where AM/PM would start
        hasPeriod == At(t, q) \in {"A", "a", "P", "p"} /\ At(t, q + 1) \in {"M", "m"}
    IN IF ~ok THEN [len |-> 0, hlen |-> 0, period |-> ""]
       ELSE [len |-> (IF hasPeriod THEN q + 2 ELSE q) - p,
             hlen |-> hlen,
             period |-> IF ~hasPeriod THEN ""
                        ELSE IF At(t, q) \in {"A", "a"} THEN "AM" ELSE "PM"]

\* [...text.matchAll(timeRegex)]: the start positions of the matches, left to
\* right, each search resuming where the previous match ended
RECURSIVE TimeMatches(_, _)
TimeMatches(t, p) ==
    IF p > Len(t) THEN <<>>
    ELSE IF TimeMatchAt(t, p).len > 0
         THEN <<p>> \o TimeMatches(t, p + TimeMatchAt(t, p).len)
         ELSE TimeMatches(t, p + 1)

\* Number.prototype.toString for n >= 0
RECURSIVE NumToChars(_)
NumToChars(n) ==
    IF n < 10 THEN <<DigitChars[n + 1]>>
    ELSE NumToChars(n \div 10) \o <<DigitChars[(n % 10) + 1]>>

\* hours.toString().padStart(2, '0')
PadStart2(cs) == IF Len(cs) < 2 THEN <<"0">> \o cs ELSE cs

\* lines 308-309 without the exceptions for 12
MatchHoursWithoutNoon(t, p) ==
    LET m == TimeMatchAt(t, p)
        h == IF m.hlen = 2 THEN 10 * DigitValue(t[p]) + DigitValue(t[p + 1])
             ELSE DigitValue(t[p])
    IN IF m.period = "PM" THEN h + 12 ELSE h

\* the hour of the match at p as the source converts it: PM adds 12 except to
\* 12, AM turns 12 into 0
MatchHours(t, p) ==
    LET m == TimeMatchAt(t, p)
        h == IF m.hlen = 2 THEN 10 * DigitValue(t[p]) + DigitValue(t[p + 1])
             ELSE DigitValue(t[p])
    IN IF m.period = "PM" /\ h # 12 THEN h + 12
       ELSE IF m.period = "AM" /\ h = 12 THEN 0
       ELSE h

\* `${hours.toString().padStart(2, '0')}:${minutes}`
FormatTime(t, p) ==
    LET c == p + TimeMatchAt(t, p).hlen
    IN PadStart2(NumToChars(MatchHours(t, p))) \o <<":", t[c + 1], t[c + 2]>>

\* <<>> stands for null / undefined
extractTimeFromText(text) ==
    LET ms == TimeMatches(text, 1)
    IN IF ms = <<>> THEN [found |-> FALSE, startTime |-> <<>>, endTime |-> <<>>]
       ELSE [found |-> TRUE,
             startTime |-> FormatTime(text, ms[1]),
             endTime |-> IF Len(ms) >= 2 THEN FormatTime(text, ms[2]) ELSE <<>>]

\* eventTitle.replace(/\d{1,2}:\d{2}\s*(AM|PM|am|pm)?/gi, '').trim()
RECURSIVE RemoveTimes(_, _)
RemoveTimes(t, p) ==
    IF p > Len(t) THEN <<>>
    ELSE IF TimeMatchAt(t, p).len > 0
         THEN RemoveTimes(t, p + TimeMatchAt(t, p).len)
         ELSE <<t[p]>> \o RemoveTimes(t, p + 1)

StripTimes(title) == Trim(RemoveTimes(title, 1))

---------------------------------------------------------------------------
(* Dates: what the JavaScript Date constructor does with (year, monthIndex, *)
(* day)                                                                    *)

IsLeap(y) == (y % 4 = 0 /\ y % 100 # 0) \/ y % 400 = 0

\* days of month m (1..12) of year y
DaysIn(y, m) ==
    IF m = 2 THEN (IF IsLeap(y) THEN 29 ELSE 28)
    ELSE IF m \in {4, 6, 9, 11} THEN 30
    ELSE 31

\* floor division and its remainder, also for a negative month index
FloorDiv(a, b) == IF a >= 0 THEN a \div b ELSE -((b - 1 - a) \div b)
FloorMod(a, b) == a - b * FloorDiv(a, b)

\* new Date(y, monthIndex, d) for 0 <= d <= 31: the calendar date it denotes,
\* as getFullYear(), getMonth() (0-based) and getDate()
JSDate(y, monthIndex, d) ==
    LET yy == y + FloorDiv(monthIndex, 12)
        mm == FloorMod(monthIndex, 12)              \* 0-based
        len == DaysIn(yy, mm + 1)
        py == IF mm = 0 THEN yy - 1 ELSE yy         \* the month before
        pm == IF mm = 0 THEN 11 ELSE mm - 1
        ny == IF mm = 11 THEN yy + 1 ELSE yy        \* the month after
        nm == IF mm = 11 THEN 0 ELSE mm + 1
    IN IF d = 0 THEN [year |-> py, month |-> pm, date |-> DaysIn(py, pm + 1)]
       ELSE IF d <= len THEN [year |-> yy, month |-> mm, date |-> d]
       ELSE [year |-> ny, month |-> nm, date |-> d - len]

\* line 18 with the day count of a common year
DaysInMonthOfCommonYear(y, m) == JSDate(2023, m, 0).date

\* const daysInMonth = new Date(year, month, 0).getDate()
DaysInMonth(y, m) == JSDate(y, m, 0).date

---------------------------------------------------------------------------
(* The canonical order: [...ocrResults].sort(comparator)                   *)
(* A fragment is [text, region |-> [x, y, width, height]]; the parser      *)
(* never reads its confidence.                                             *)

ROW_TOLERANCE == 50

\* the comparator of the sort
CompareResults(a, b) ==
    LET yDiff == a.region.y - b.region.y
    IN IF Abs(yDiff) >= ROW_TOLERANCE THEN yDiff ELSE a.region.x - b.region.x

Reverse(s) == [k \in 1..Len(s) |-> s[Len(s) + 1 - k]]

(* Array.prototype.sort as V8 runs it on an array shorter than 64: the      *)
(* leading run is counted (and reversed when strictly descending), then    *)
(* every further element is put in place by binary insertion.  For a       *)
(* comparator that is a consistent order this is the stable sort every     *)
(* engine computes.                                                        *)
RECURSIVE RunEnd(_, _, _)
RunEnd(a, idx, desc) ==
    IF idx > Len(a) THEN Len(a)
    ELSE LET order == CompareResults(a[idx], a[idx - 1])
         IN IF (desc /\ order >= 0) \/ (~desc /\ order < 0) THEN idx - 1
            ELSE RunEnd(a, idx + 1, desc)

\* 0-based left and right, as in the engine
RECURSIVE BinarySearch(_, _, _, _)
BinarySearch(a, pivot, left, right) ==
    IF left >= right THEN left
    ELSE LET mid == left + ((right - left) \div 2)
         IN IF CompareResults(pivot, a[mid + 1]) < 0
            THEN BinarySearch(a, pivot, left, mid)
            ELSE BinarySearch(a, pivot, mid + 1, right)

\* start is the 1-based index of the next element to insert
RECURSIVE BinaryInsertionSort(_, _)
BinaryInsertionSort(a, start) ==
    IF start > Len(a) THEN a
    ELSE LET pivot == a[start]
             left == BinarySearch(a, pivot, 0, start - 1)
         IN BinaryInsertionSort(
                SubSeq(a, 1, left) \o <<pivot>> \o SubSeq(a, left + 1, start - 1)
                    \o SubSeq(a, start + 1, Len(a)),
                start + 1)

SortResults(a) ==
    IF Len(a) < 2 THEN a
    ELSE LET desc == CompareResults(a[2], a[1]) < 0
             run == RunEnd(a, 3, desc)
             made == IF desc THEN Reverse(SubSeq(a, 1, run)) \o SubSeq(a, run + 1, Len(a))
                     ELSE a
         IN BinaryInsertionSort(made, run + 1)

---------------------------------------------------------------------------
(* assignWeekIndices                                                       *)

MAX_WEEKS == 6

\* the y of every result whose text holds a day token, in result order
RECURSIVE YPositions(_)
YPositions(results) ==
    IF results = <<>> THEN <<>>
    ELSE (IF DateMatch(Head(results).text) # 0 THEN <<Head(results).region.y>> ELSE <<>>)
         \o YPositions(Tail(results))

\* yPositions.sort((a, b) => a - b)
RECURSIVE InsertNum(_, _)
InsertNum(s, n) ==
    IF s = <<>> THEN <<n>>
    ELSE IF n < Head(s) THEN <<n>> \o s
    ELSE <<Head(s)>> \o InsertNum(Tail(s), n)
RECURSIVE SortNums(_)
SortNums(s) == IF s = <<>> THEN <<>> ELSE InsertNum(SortNums(Tail(s)), Head(s))

\* the rows: a y opens a new row when it is 50 or more from the last row
RECURSIVE RowsFrom(_, _)
RowsFrom(rows, ys) ==
    IF ys = <<>> THEN rows
    ELSE IF Abs(Head(ys) - rows[Len(rows)]) >= ROW_TOLERANCE
         THEN RowsFrom(Append(rows, Head(ys)), Tail(ys))
         ELSE RowsFrom(rows, Tail(ys))

Rows(results) ==
    LET ys == SortNums(YPositions(results))
    IN IF ys = <<>> THEN <<>> ELSE RowsFrom(<<Head(ys)>>, Tail(ys))

\* rows.findIndex(y => Math.abs(y - result.region.y) < 50), 0-based, -1: none
FindRowIndex(rows, y) ==
    LET ks == {k \in 1..Len(rows) : Abs(rows[k] - y) < ROW_TOLERANCE}
    IN IF ks = {} THEN -1 ELSE SetMin(ks) - 1

\* the "dummy entries (x=0, text="1") used for test structure" the function skips
IsDummyEntry(result) == result.region.x = 0 /\ result.text = <<"1">>

\* lines 233-289 with rowIndex - weekOffset taken as it is (no Math.max)
assignWeekIndicesUnclamped(results) ==
    LET rows == Rows(results)
        weekOffset == IF Len(rows) > MAX_WEEKS THEN Len(rows) - MAX_WEEKS ELSE 0
        keys == {k \in 1..Len(results) :
                    /\ rows # <<>>
                    /\ ~IsDummyEntry(results[k])
                    /\ DateMatch(results[k].text) # 0}
    IN [k \in keys |->
          [day |-> ParseDay(results[k].text),
           weekIndex |-> FindRowIndex(rows, results[k].region.y) - weekOffset,
           y |-> results[k].region.y,
           resultIndex |-> k]]

\* the Map: a function from the (1-based) indices that were set to DateInfo
assignWeekIndices(results) ==
    LET rows == Rows(results)
        weekOffset == IF Len(rows) > MAX_WEEKS THEN Len(rows) - MAX_WEEKS ELSE 0
        keys == {k \in 1..Len(results) :
                    /\ rows # <<>>
                    /\ ~IsDummyEntry(results[k])
                    /\ DateMatch(results[k].text) # 0}
    IN [k \in keys |->
          [day |-> ParseDay(results[k].text),
           weekIndex |-> Max2(0, FindRowIndex(rows, results[k].region.y) - weekOffset),
           y |-> results[k].region.y,
           resultIndex |-> k]]

---------------------------------------------------------------------------
(* The month state machine of the loop body (part_005 lines 53-129)        *)

InitTracker ==
    [lastDay |-> 0, currentWeek |-> -1,
     hasTransitionedToCurrent |-> FALSE, hasBeenInCurrentMonth |-> FALSE,
     isInNextMonth |-> FALSE, hasSeenEndOfMonth |-> FALSE]

\* Which branch of the if / else-if chain (lines 66-127) a fragment takes;
\* 12 is the fall-through (monthOffset stays 0).
MonthBranch(t, day, weekIndex, daysInMonth) ==
    LET isNewWeek == weekIndex # t.currentWeek
    IN IF weekIndex = 0 /\ day >= 25 /\ t.lastDay = 0 /\ ~t.hasBeenInCurrentMonth THEN 1
       ELSE IF weekIndex = 0 /\ t.lastDay >= 28 /\ day <= 5 /\ ~t.hasTransitionedToCurrent THEN 2
       ELSE IF weekIndex >= 3 /\ t.lastDay >= 25 /\ day <= 5 THEN 3
       ELSE IF weekIndex >= 4 /\ day <= 10 /\ t.hasSeenEndOfMonth THEN 4
       ELSE IF weekIndex >= 4 /\ day <= 5 /\ t.lastDay = 0 THEN 5
       ELSE IF weekIndex >= 4 /\ day > daysInMonth THEN 6
       ELSE IF isNewWeek /\ day >= 25 /\ t.hasBeenInCurrentMonth /\ weekIndex >= 3 THEN 7
       ELSE IF weekIndex = 0 /\ day = t.lastDay + 1 /\ day >= 25 THEN 8
       ELSE IF t.isInNextMonth /\ day = t.lastDay + 1 THEN 9
       ELSE IF day = t.lastDay + 1 \/ (t.lastDay = 0 /\ day = 1) THEN 10
       ELSE IF ~t.hasBeenInCurrentMonth /\ day > 5 /\ day < 25 THEN 11
       ELSE 12

\* the month offset without the first-week branch of lines 65-68
MonthOffsetWithoutFirstWeek(t, day, weekIndex, daysInMonth) ==
    IF MonthBranch(t, day, weekIndex, daysInMonth) \in {3, 4, 5, 6, 9} THEN 1
    ELSE IF MonthBranch(t, day, weekIndex, daysInMonth) = 8 THEN -1
    ELSE 0

\* the month offset without the continuation branch of lines 105-108
MonthOffsetWithoutContinuation(t, day, weekIndex, daysInMonth) ==
    IF MonthBranch(t, day, weekIndex, daysInMonth) \in {3, 4, 5, 6} THEN 1
    ELSE IF MonthBranch(t, day, weekIndex, daysInMonth) \in {1, 8} THEN -1
    ELSE 0

\* let monthOffset = 0, then what the branch assigns
MonthOffset(t, day, weekIndex, daysInMonth) ==
    LET b == MonthBranch(t, day, weekIndex, daysInMonth)
    IN IF b \in {1, 8} THEN -1
       ELSE IF b \in {3, 4, 5, 6, 9} THEN 1
       ELSE 0

\* the tracking state after the fragment: the branch's flag updates, the week
\* change of lines 57-60 and lastDay = day of line 129
DetectMonth(t, day, weekIndex, daysInMonth) ==
    LET b == MonthBranch(t, day, weekIndex, daysInMonth)
    IN [lastDay |-> day,
        currentWeek |-> weekIndex,
        hasTransitionedToCurrent |->
            IF b \in {2, 7, 11} \/ (b = 10 /\ ~t.hasBeenInCurrentMonth /\ weekIndex > 0)
            THEN TRUE ELSE t.hasTransitionedToCurrent,
        hasBeenInCurrentMonth |->
            IF b \in {2, 11} \/ (b = 10 /\ ~t.hasBeenInCurrentMonth /\ weekIndex > 0)
            THEN TRUE ELSE t.hasBeenInCurrentMonth,
        isInNextMonth |-> IF b \in {3, 4, 5, 6} THEN TRUE ELSE t.isInNextMonth,
        hasSeenEndOfMonth |->
            IF (b = 7 /\ day >= 24) \/ (b = 10 /\ day >= 24 /\ weekIndex >= 3)
            THEN TRUE ELSE t.hasSeenEndOfMonth]

\* lines 131-142 without the change of year
ActualMonthInSameYear(y, m, monthOffset) ==
    IF m + monthOffset = 0 THEN [year |-> y, month |-> 12]
    ELSE IF m + monthOffset = 13 THEN [year |-> y, month |-> 1]
    ELSE [year |-> y, month |-> m + monthOffset]

\* lines 131-142: actualYear and actualMonth
ActualMonth(y, m, monthOffset) ==
    IF m + monthOffset = 0 THEN [year |-> y - 1, month |-> 12]
    ELSE IF m + monthOffset = 13 THEN [year |-> y + 1, month |-> 1]
    ELSE [year |-> y, month |-> m + monthOffset]

---------------------------------------------------------------------------
(* The loop body of parseCalendarFromOCR (part_005 lines 39-224)           *)

NIGHTSHIFT == <<"n", "i", "g", "h", "t", "s", "h", "i", "f", "t">>
DAYSHIFT == <<"d", "a", "y", "s", "h", "i", "f", "t">>

\* History of the last fragment the state machine dated: its day and week
\* row, the offset it was given, the lastDay it met, and whether it belongs
\* to a tail run (see TailRun).
NoDated == [day |-> 0, weekIndex |-> -1, monthOffset |-> 0, lastDay |-> 0,
            tailRun |-> FALSE]

\* A tail run starts with a day <= 5 that follows a day >= 25 in a row with
\* weekIndex >= 3 and goes on in that row while each day is one more than the
\* day before.
TailRun(prev, t, day, weekIndex) ==
    \/ weekIndex >= 3 /\ t.lastDay >= 25 /\ day <= 5
    \/ prev.tailRun /\ day = t.lastDay + 1 /\ weekIndex = t.currentWeek

Dated(prev, t, day, weekIndex, daysInMonth) ==
    [day |-> day, weekIndex |-> weekIndex,
     monthOffset |-> MonthOffset(t, day, weekIndex, daysInMonth),
     lastDay |-> t.lastDay,
     tailRun |-> TailRun(prev, t, day, weekIndex)]

\* lines 154-174: the title taken from the next result, <<>> when none
AdjacentTitle(sorted, k) ==
    LET result == sorted[k]
        nextResult == sorted[k + 1]
        yDiff == Abs(nextResult.region.y - result.region.y)
        xDiff == Abs(nextResult.region.x - result.region.x)
        isSameRow == yDiff < 60
        isDirectlyBelow == yDiff > 0 /\ yDiff < 100 /\ xDiff < 50
        isNearbyX == xDiff < 150
        isNotJustANumber == ~IsJustANumber(nextResult.text)
    IN IF (isSameRow \/ isDirectlyBelow) /\ isNearbyX /\ isNotJustANumber
       THEN cleanEventText(nextResult.text)
       ELSE <<>>

\* lines 144-187 with the jojo default applied in every mode
EventTitleDefaulting(sorted, k, type) ==
    LET text == sorted[k].text
        afterDate == AfterDate(text)
        own == IF Len(afterDate) > 1 THEN cleanEventText(afterDate) ELSE <<>>
        near == IF own = <<>> /\ type = "standard" /\ k + 1 <= Len(sorted)
                THEN AdjacentTitle(sorted, k)
                ELSE own
    IN IF type = "jojo" /\ (HasC(text) \/ HasMoon(text)) THEN NIGHTSHIFT
       ELSE IF near # <<>> THEN near ELSE DAYSHIFT

\* lines 144-187: eventTitle; <<>> is the empty (falsy) string
EventTitle(sorted, k, type) ==
    LET text == sorted[k].text
        afterDate == AfterDate(text)
        own == IF Len(afterDate) > 1 THEN cleanEventText(afterDate) ELSE <<>>
        near == IF own = <<>> /\ type = "standard" /\ k + 1 <= Len(sorted)
                THEN AdjacentTitle(sorted, k)
                ELSE own
    IN IF type = "jojo"
       THEN (IF HasC(text) \/ HasMoon(text) THEN NIGHTSHIFT
             ELSE IF near # <<>> THEN near ELSE DAYSHIFT)
       ELSE near

\* lines 190-196: events.some(...)
IsDuplicate(evs, day, actual, title) ==
    \E n \in 1..Len(evs) :
        /\ evs[n].date.date = day
        /\ evs[n].date.month = actual.month - 1
        /\ evs[n].date.year = actual.year
        /\ evs[n].title = title

\* lines 204-217: the event.  The id keeps the day, month and year the
\* template string starts with; from is the index of the fragment.
MakeEvent(day, actual, title, k) ==
    LET timeInfo == extractTimeFromText(title)
    IN [id |-> <<day, actual.month, actual.year>>,
        title |-> IF timeInfo.found THEN StripTimes(title) ELSE title,
        date |-> JSDate(actual.year, actual.month - 1, day),
        startTime |-> timeInfo.startTime,
        endTime |-> timeInfo.endTime,
        from |-> k]

\* lines 44-51 without the upper limit of line 48
ReachesTrackerWithoutLimit(sorted, weeks, k) ==
    /\ DateMatch(sorted[k].text) # 0
    /\ ParseDay(sorted[k].text) >= 1
    /\ k \in DOMAIN weeks

\* does iteration k reach the month state machine (lines 44-51)?
ReachesTracker(sorted, weeks, k) ==
    /\ DateMatch(sorted[k].text) # 0
    /\ ParseDay(sorted[k].text) >= 1
    /\ ParseDay(sorted[k].text) <= 31
    /\ k \in DOMAIN weeks

\* One iteration: st is [tracker, events, dated].
LoopBody(sorted, weeks, y, m, type, st, k) ==
    IF ~ReachesTracker(sorted, weeks, k) THEN st
    ELSE LET day == ParseDay(sorted[k].text)
             weekIndex == weeks[k].weekIndex
             daysInMonth == DaysInMonth(y, m)
             monthOffset == MonthOffset(st.tracker, day, weekIndex, daysInMonth)
             actual == ActualMonth(y, m, monthOffset)
             title == EventTitle(sorted, k, type)
         IN [tracker |-> DetectMonth(st.tracker, day, weekIndex, daysInMonth),
             dated |-> Dated(st.dated, st.tracker, day, weekIndex, daysInMonth),
             events |->
                 IF title = <<>> \/ IsDuplicate(st.events, day, actual, title)
                 THEN st.events
                 ELSE Append(st.events, MakeEvent(day, actual, title, k))]

RECURSIVE RunLoop(_, _, _, _, _, _, _)
RunLoop(sorted, weeks, y, m, type, st, k) ==
    IF k > Len(sorted) THEN st
    ELSE RunLoop(sorted, weeks, y, m, type,
                 LoopBody(sorted, weeks, y, m, type, st, k), k + 1)

\* the events of a whole call
\* lines 226-230: the value of the mutated request is never returned
ParsedCalendarDataOfLastEvent(y, m, evs) ==
    IF evs = <<>> THEN [year |-> y, month |-> m, events |-> evs]
    ELSE [year |-> evs[Len(evs)].id[3], month |-> evs[Len(evs)].id[2], events |-> evs]

\* lines 226-230: the returned object
ParsedCalendarData(y, m, evs) == [year |-> y, month |-> m, events |-> evs]

parseCalendarFromOCR(results, y, m, type) ==
    LET sorted == SortResults(results)
    IN RunLoop(sorted, assignWeekIndices(sorted), y, m, type,
               [tracker |-> InitTracker, events |-> <<>>, dated |-> NoDated], 1).events

---------------------------------------------------------------------------
(* Inputs of parseCalendarFromOCR                                          *)

Fragment(text, x, y) ==
    [text |-> text, region |-> [x |-> x, y |-> y, width |-> 50, height |-> 50]]

\* The six rows of a month view, as parser.test.ts builds them
\* (withCalendarStructure): one entry "1" at x = 0 per row.
CalendarStructure ==
    <<Fragment(<<"1">>, 0, 150), Fragment(<<"1">>, 0, 200), Fragment(<<"1">>, 0, 250),
      Fragment(<<"1">>, 0, 300), Fragment(<<"1">>, 0, 350), Fragment(<<"1">>, 0, 400)>>

\* The recognised fragments a call may be given beside the structure.
FragmentPool ==
    {
     Fragment(<<"3", "1", " ", "T", "a", "s", "k">>, 100, 150),
     Fragment(<<"1", " ", "W", "o", "r", "k">>, 150, 150),
     Fragment(<<"2", " ", "P", "l", "a", "n">>, 100, 160),
     Fragment(<<"1", "5">>, 200, 250),
     Fragment(<<"L", "u", "n", "c", "h">>, 250, 250),
     Fragment(<<"1", " ", "W", "o", "r", "k">>, 100, 350),
     Fragment(<<"2", "8", " ", "E", "v", "e", "n", "t">>, 200, 350),
     Fragment(<<"2", "9", " ", "C", "a", "l">>, 300, 350),
     Fragment(<<"2", "8", " ", "E", "v", "e", "n", "t">>, 200, 360),
     Fragment(<<"4", "5">>, 100, 400),
     Fragment(<<"2", " ", "P", "l", "a", "n">>, 300, 400),
     Fragment(<<"3", "0", " ", "9", ":", "0", "0", " ", "P", "M">>, 200, 400)
    }

\* at most this many fragments beside the structure
MaxFragments == 3

FragmentLists == UNION {[1..n -> FragmentPool] : n \in 0..MaxFragments}

\* the requested (year, month) pairs
Requests == {<<2023, 1>>, <<2024, 2>>, <<2024, 12>>}

CalendarTypes == {"standard", "jojo"}

---------------------------------------------------------------------------
(* Idle values of the parts a specification does not run                   *)

NoRegion == [x |-> 0, y |-> 0, width |-> 0, height |-> 0]
NoBox == [minX |-> 0, maxX |-> 0, minY |-> 0, maxY |-> 0]
NoData == [year |-> 0, month |-> 0, events |-> <<>>]

ParseIdle ==
    /\ ocrResults = <<>> /\ year = 0 /\ month = 0 /\ calendarType = "standard"
    /\ sortedResults = <<>> /\ datesWithWeeks = <<>> /\ i = 0
    /\ tracker = InitTracker /\ events = <<>> /\ pc = "idle" /\ dated = NoDated
    /\ parsedData = NoData

MergeIdle ==
    /\ regions = <<>> /\ mi = 0 /\ current = NoRegion /\ used = {}
    /\ merged = <<>> /\ mpc = "idle"

DetectIdle ==
    /\ image = {} /\ visited = {} /\ stack = <<>> /\ box = NoBox
    /\ scan = <<0, 0>> /\ found = <<>> /\ dpc = "idle"

OcrIdle ==
    /\ ocrRegions = <<>> /\ tesseract = <<>> /\ ri = 0 /\ ocrOutput = <<>>
    /\ opc = "idle"

NoProcessing == [status |-> "idle", progress |-> 0]

UploadIdle ==
    /\ selectedCalendarType = "standard" /\ processingState = NoProcessing
    /\ eventsState = <<>> /\ statusLog = <<>> /\ upc = "idle"

---------------------------------------------------------------------------
(* parseCalendarFromOCR as a state machine                                 *)

\* the call: its arguments, and the locals of lines 17-26
InitParse ==
    /\ ocrResults \in {CalendarStructure \o f : f \in FragmentLists}
    /\ \E r \in Requests : year = r[1] /\ month = r[2]
    /\ calendarType \in CalendarTypes
    /\ sortedResults = <<>> /\ datesWithWeeks = <<>> /\ i = 0
    /\ tracker = InitTracker /\ events = <<>> /\ dated = NoDated
    /\ parsedData = NoData
    /\ pc = "start"
    /\ MergeIdle /\ DetectIdle /\ OcrIdle /\ UploadIdle

\* lines 28-36: the sort and assignWeekIndices
SortAndAssign ==
    /\ pc = "start"
    /\ sortedResults' = SortResults(ocrResults)
    /\ datesWithWeeks' = assignWeekIndices(sortedResults')
    /\ i' = 1
    /\ pc' = "loop"
    /\ UNCHANGED <<ocrResults, year, month, calendarType, tracker, events, dated,
                   parsedData>>
    /\ UNCHANGED <<mergeVars, detectVars, ocrVars, uploadVars>>

\* lines 39-224: one iteration of the loop
Iterate ==
    /\ pc = "loop"
    /\ i <= Len(sortedResults)
    /\ LET st == LoopBody(sortedResults, datesWithWeeks, year, month, calendarType,
                          [tracker |-> tracker, events |-> events, dated |-> dated], i)
       IN /\ tracker' = st.tracker
          /\ events' = st.events
          /\ dated' = st.dated
    /\ i' = i + 1
    /\ UNCHANGED <<ocrResults, year, month, calendarType, sortedResults,
                   datesWithWeeks, pc, parsedData>>
    /\ UNCHANGED <<mergeVars, detectVars, ocrVars, uploadVars>>

\* lines 226-230
Return ==
    /\ pc = "loop"
    /\ i > Len(sortedResults)
    /\ pc' = "done"
    /\ parsedData' = ParsedCalendarData(year, month, events)
    /\ UNCHANGED <<ocrResults, year, month, calendarType, sortedResults,
                   datesWithWeeks, i, tracker, events, dated>>
    /\ UNCHANGED <<mergeVars, detectVars, ocrVars, uploadVars>>

NextParse == SortAndAssign \/ Iterate \/ Return

Spec == InitParse /\ [][NextParse]_vars

---------------------------------------------------------------------------
(* The call with its identifiers.  Line 205 builds the id from the day,    *)
(* the month, the year, Date.now() and a suffix drawn from Math.random();  *)
(* the last two are inputs of the environment, so every step that pushes   *)
(* an event chooses them.  The fragment lists are free (the empty list     *)
(* included), and so is the month argument: the signature takes any        *)
(* number (lines 11-16).                                                   *)

\* line 205 with the suffix leaking into the title
StampEventIntoTitle(e, now, rand) ==
    [e EXCEPT !.id = e.id \o <<now, rand>>, !.title = e.title \o <<rand>>]

\* line 205: `event-${day}-${actualMonth}-${actualYear}-${Date.now()}-${...}`
StampEvent(e, now, rand) == [e EXCEPT !.id = e.id \o <<now, rand>>]

\* Date.now(): two consecutive milliseconds
Clock == {0, 1}

\* Math.random().toString(36).substr(2, 9): "i" is 0.5, "9" is 0.25
RandomSuffixes == {"i", "9"}

\* the milliseconds already used by the call (the clock does not run back)
LastStamp(evs) == IF evs = <<>> THEN 0 ELSE evs[Len(evs)].id[4]

CallPool ==
    { Fragment(<<"5", " ", "G", "y", "m">>, 100, 150),
      Fragment(<<"5", " ", "S", "w", "i", "m">>, 200, 150),
      Fragment(<<"3", "1", " ", "T", "a", "s", "k">>, 100, 150),
      Fragment(<<"1", "5">>, 200, 250),
      Fragment(<<"L", "u", "n", "c", "h">>, 250, 250),
      Fragment(<<"1", " ", "W", "o", "r", "k">>, 100, 350),
      Fragment(<<"3", "0", " ", "9", ":", "0", "0", " ", "P", "M">>, 200, 400) }

MaxCallFragments == 2

CallLists == UNION {[1..n -> CallPool] : n \in 0..MaxCallFragments}

\* the months 0 and 13 are outside the contract
CallRequests == {<<2024, 0>>, <<2024, 1>>, <<2024, 12>>, <<2024, 13>>}

InitCall ==
    /\ ocrResults \in CallLists
    /\ \E r \in CallRequests : year = r[1] /\ month = r[2]
    /\ calendarType \in CalendarTypes
    /\ sortedResults = <<>> /\ datesWithWeeks = <<>> /\ i = 0
    /\ tracker = InitTracker /\ events = <<>> /\ dated = NoDated
    /\ parsedData = NoData
    /\ pc = "start"
    /\ MergeIdle /\ DetectIdle /\ OcrIdle /\ UploadIdle

\* lines 39-224: one iteration, the id of a pushed event completed
IterateStamped ==
    /\ pc = "loop"
    /\ i <= Len(sortedResults)
    /\ LET st == LoopBody(sortedResults, datesWithWeeks, year, month, calendarType,
                          [tracker |-> tracker, events |-> events, dated |-> dated], i)
       IN /\ tracker' = st.tracker
          /\ dated' = st.dated
          /\ IF Len(st.events) = Len(events)
             THEN events' = events
             ELSE \E now \in Clock, rand \in RandomSuffixes :
                    /\ now >= LastStamp(events)
                    /\ events' = Append(events,
                                        StampEvent(st.events[Len(st.events)], now, rand))
    /\ i' = i + 1
    /\ UNCHANGED <<ocrResults, year, month, calendarType, sortedResults,
                   datesWithWeeks, pc, parsedData>>
    /\ UNCHANGED <<mergeVars, detectVars, ocrVars, uploadVars>>

NextCall == SortAndAssign \/ IterateStamped \/ Return

SpecCall == InitCall /\ [][NextCall]_vars

---------------------------------------------------------------------------
(* The step that turns a dated fragment into an event (lines 131-142 and   *)
(* 204-219), for every month of the request, every day number and each of  *)
(* the three offsets the month machine can choose.                         *)

EventYears == {2023, 2024}

InitEvent ==
    /\ ocrResults = <<>> /\ calendarType = "jojo"
    /\ year \in EventYears /\ month \in 1..12
    /\ sortedResults = <<>> /\ datesWithWeeks = <<>> /\ i = 0
    /\ tracker = InitTracker /\ events = <<>> /\ dated = NoDated
    /\ parsedData = NoData
    /\ pc = "event"
    /\ MergeIdle /\ DetectIdle /\ OcrIdle /\ UploadIdle

BuildEvent ==
    /\ pc = "event"
    /\ \E day \in 1..31, monthOffset \in {-1, 0, 1} :
          /\ dated' = [NoDated EXCEPT !.day = day, !.monthOffset = monthOffset]
          /\ events' = <<MakeEvent(day, ActualMonth(year, month, monthOffset),
                                   DAYSHIFT, 0)>>
    /\ UNCHANGED <<ocrResults, year, month, calendarType, sortedResults,
                   datesWithWeeks, i, tracker, pc, parsedData>>
    /\ UNCHANGED <<mergeVars, detectVars, ocrVars, uploadVars>>

NextEvent == BuildEvent

SpecEvent == InitEvent /\ [][NextEvent]_vars

---------------------------------------------------------------------------
(* The call on one fragment "15 Meeting <time>" or "15 Meeting <time>      *)
(* <time>", for every spelling of the two times.                           *)

TimeHours == {[text |-> <<"9">>, value |-> 9], [text |-> <<"1", "0">>, value |-> 10],
              [text |-> <<"1", "2">>, value |-> 12], [text |-> <<"1", "3">>, value |-> 13]}

TimeMinutes == {<<"0", "0">>, <<"3", "0">>}

TimePeriods == {[text |-> <<>>, kind |-> ""],
                [text |-> <<" ", "A", "M">>, kind |-> "AM"],
                [text |-> <<"a", "m">>, kind |-> "AM"],
                [text |-> <<" ", "P", "M">>, kind |-> "PM"],
                [text |-> <<"p", "m">>, kind |-> "PM"]}

Times == [hour : TimeHours, minutes : TimeMinutes, period : TimePeriods]

TimeText(t) == t.hour.text \o <<":">> \o t.minutes \o t.period.text

\* the fragment text; second is a time or <<>> (no second time)
TimedText(first, second) ==
    <<"1", "5", " ", "M", "e", "e", "t", "i", "n", "g", " ">> \o TimeText(first)
        \o (IF second = <<>> THEN <<>> ELSE <<" ">> \o TimeText(second))

InitTime ==
    /\ \E first \in Times, second \in Times \cup {<<>>} :
          ocrResults = <<Fragment(TimedText(first, second), 200, 250)>>
    /\ year = 2024 /\ month = 2
    /\ calendarType \in CalendarTypes
    /\ sortedResults = <<>> /\ datesWithWeeks = <<>> /\ i = 0
    /\ tracker = InitTracker /\ events = <<>> /\ dated = NoDated
    /\ parsedData = NoData
    /\ pc = "start"
    /\ MergeIdle /\ DetectIdle /\ OcrIdle /\ UploadIdle

SpecTime == InitTime /\ [][NextParse]_vars

---------------------------------------------------------------------------
(* The call on month views whose fragments do not sit exactly on the rows: *)
(* marks above the first row (a header line that holds a number) and marks *)
(* between two rows; a bare day number with a titled day next to it; and a *)
(* bare day number in the last row with a note below it.                   *)

WeekPool ==
    { Fragment(<<"1", "2", " ", "M", "o", "n">>, 100, 100),
      Fragment(<<"9", " ", "T", "o", "p">>, 200, 95),
      Fragment(<<"4", " ", "R", "u", "n">>, 200, 150),
      Fragment(<<"3", " ", "G", "y", "m">>, 100, 190),
      Fragment(<<"1", "0", " ", "S", "w", "i", "m">>, 100, 400),
      Fragment(<<"1", "5">>, 200, 250),
      Fragment(<<"1", "6", " ", "T", "e", "a">>, 250, 250),
      Fragment(<<"2", "0">>, 200, 400),
      Fragment(<<"M", "e", "m", "o">>, 240, 470),
      Fragment(<<"N", "o", "t", "e">>, 250, 470) }

MaxWeekFragments == 2

InitWeeks ==
    /\ \E n \in 0..MaxWeekFragments : \E f \in [1..n -> WeekPool] :
          ocrResults = CalendarStructure \o f
    /\ year = 2024 /\ month = 2
    /\ calendarType \in CalendarTypes
    /\ sortedResults = <<>> /\ datesWithWeeks = <<>> /\ i = 0
    /\ tracker = InitTracker /\ events = <<>> /\ dated = NoDated
    /\ parsedData = NoData
    /\ pc = "start"
    /\ MergeIdle /\ DetectIdle /\ OcrIdle /\ UploadIdle

SpecWeeks == InitWeeks /\ [][NextParse]_vars

---------------------------------------------------------------------------
(* extractTextFromRegions (src/lib/ocr.ts lines 10-55) as a state machine. *)
(* What the browser and Tesseract do for a region is an input: the canvas  *)
(* is converted to a blob or the conversion fails, the recognition throws  *)
(* or delivers a text.                                                     *)

\* result.data.text: empty, white space only, and two texts with white
\* space around them
OcrTexts == {<<>>, <<" ", "\n">>, <<"1", "5", "\n">>, <<" ", "L", "u", "n", "c", "h">>}

Outcomes ==
    {[blob |-> FALSE, throws |-> FALSE, text |-> <<>>, confidence |-> 0],
     [blob |-> TRUE, throws |-> TRUE, text |-> <<>>, confidence |-> 0]}
    \cup {[blob |-> TRUE, throws |-> FALSE, text |-> t, confidence |-> 10 * Len(t)] :
              t \in OcrTexts}

OcrRegionPool ==
    {[x |-> 100, y |-> 150, width |-> 50, height |-> 50],
     [x |-> 200, y |-> 250, width |-> 40, height |-> 40]}

MaxOcrRegions == 3

\* lines 36-50 with the test of line 41 left out
TryRecognizeUnchecked(list, region, outcome) ==
    IF outcome.throws THEN list
    ELSE Append(list, [text |-> Trim(outcome.text), region |-> region,
                       confidence |-> outcome.confidence])

\* lines 36-50: the try block and its catch
TryRecognize(list, region, outcome) ==
    IF outcome.throws THEN list
    ELSE IF Trim(outcome.text) # <<>>
         THEN Append(list, [text |-> Trim(outcome.text), region |-> region,
                            confidence |-> outcome.confidence])
         ELSE list

InitOcr ==
    /\ \E n \in 0..MaxOcrRegions :
          /\ ocrRegions \in [1..n -> OcrRegionPool]
          /\ tesseract \in [1..n -> Outcomes]
    /\ ri = 0 /\ ocrOutput = <<>> /\ opc = "load"
    /\ ParseIdle /\ MergeIdle /\ DetectIdle /\ UploadIdle

\* lines 15-18: the image is loaded, or loadImage rejects and so does the call
LoadImage ==
    /\ opc = "load"
    /\ opc' \in {"loop", "rejected"}
    /\ ri' = 1
    /\ UNCHANGED <<ocrRegions, tesseract, ocrOutput>>
    /\ UNCHANGED <<parseVars, mergeVars, detectVars, uploadVars>>

\* lines 20-51: one region; a failing canvasToBlob (line 34) is outside the
\* try block and rejects the call
Recognize ==
    /\ opc = "loop"
    /\ ri <= Len(ocrRegions)
    /\ IF tesseract[ri].blob
       THEN /\ ocrOutput' = TryRecognize(ocrOutput, ocrRegions[ri], tesseract[ri])
            /\ opc' = opc
       ELSE /\ ocrOutput' = ocrOutput
            /\ opc' = "rejected"
    /\ ri' = ri + 1
    /\ UNCHANGED <<ocrRegions, tesseract>>
    /\ UNCHANGED <<parseVars, mergeVars, detectVars, uploadVars>>

\* lines 53-54
ReturnResults ==
    /\ opc = "loop"
    /\ ri > Len(ocrRegions)
    /\ opc' = "returned"
    /\ UNCHANGED <<ocrRegions, tesseract, ri, ocrOutput>>
    /\ UNCHANGED <<parseVars, mergeVars, detectVars, uploadVars>>

NextOcr == LoadImage \/ Recognize \/ ReturnResults

SpecOcr == InitOcr /\ [][NextOcr]_vars

---------------------------------------------------------------------------
(* The month state machine over a stream of dated fragments                *)
(*                                                                         *)
(* In canonical order the week rows of a grid-aligned calendar never       *)
(* decrease; every such stream of (day, weekIndex) pairs, of any length,   *)
(* is the stream of some fragment list (rows that hold only structure      *)
(* entries supply the missing rows).  Each step is the part of one loop    *)
(* iteration that dates the fragment (lines 53-142).                       *)

StreamRequests == {<<2023, 2>>, <<2024, 2>>, <<2024, 4>>, <<2024, 12>>}

InitStream ==
    /\ ocrResults = <<>> /\ calendarType = "standard"
    /\ \E r \in StreamRequests : year = r[1] /\ month = r[2]
    /\ sortedResults = <<>> /\ datesWithWeeks = <<>> /\ i = 0
    /\ tracker = InitTracker /\ events = <<>> /\ dated = NoDated
    /\ parsedData = NoData
    /\ pc = "stream"
    /\ MergeIdle /\ DetectIdle /\ OcrIdle /\ UploadIdle

DateFragment ==
    /\ pc = "stream"
    /\ LET daysInMonth == DaysInMonth(year, month)
       IN \E day \in 1..31, weekIndex \in 0..(MAX_WEEKS - 1) :
             /\ weekIndex >= tracker.currentWeek
             /\ tracker' = DetectMonth(tracker, day, weekIndex, daysInMonth)
             /\ dated' = Dated(dated, tracker, day, weekIndex, daysInMonth)
    /\ UNCHANGED <<ocrResults, year, month, calendarType, sortedResults,
                   datesWithWeeks, i, events, pc, parsedData>>
    /\ UNCHANGED <<mergeVars, detectVars, ocrVars, uploadVars>>

NextStream == DateFragment

SpecStream == InitStream /\ [][NextStream]_vars

---------------------------------------------------------------------------
(* CanvasStrategy.mergeOverlappingRegions                                  *)
(* (OpenCVStrategy carries the same three methods, text for text)          *)

regionsOverlap(r1, r2) ==
    ~(\/ r1.x + r1.width < r2.x
      \/ r2.x + r2.width < r1.x
      \/ r1.y + r1.height < r2.y
      \/ r2.y + r2.height < r1.y)

mergeTwoRegions(r1, r2) ==
    LET minX == Min2(r1.x, r2.x)
        minY == Min2(r1.y, r2.y)
        maxX == Max2(r1.x + r1.width, r2.x + r2.width)
        maxY == Max2(r1.y + r1.height, r2.y + r2.height)
    IN [x |-> minX, y |-> minY, width |-> maxX - minX, height |-> maxY - minY]

\* the inner for loop without used.add(j)
RECURSIVE MergePassNoConsume(_, _, _)
MergePassNoConsume(regs, st, j) ==
    IF j > Len(regs) THEN st
    ELSE IF j \in st.used THEN MergePassNoConsume(regs, st, j + 1)
    ELSE IF regionsOverlap(st.current, regs[j])
         THEN MergePassNoConsume(regs,
                        [current |-> mergeTwoRegions(st.current, regs[j]),
                         used |-> st.used,
                         mergedNew |-> TRUE],
                        j + 1)
         ELSE MergePassNoConsume(regs, st, j + 1)

\* One run of the inner for loop from index j on; st is [current, used,
\* mergedNew].
RECURSIVE MergePass(_, _, _)
MergePass(regs, st, j) ==
    IF j > Len(regs) THEN st
    ELSE IF j \in st.used THEN MergePass(regs, st, j + 1)
    ELSE IF regionsOverlap(st.current, regs[j])
         THEN MergePass(regs,
                        [current |-> mergeTwoRegions(st.current, regs[j]),
                         used |-> st.used \cup {j},
                         mergedNew |-> TRUE],
                        j + 1)
         ELSE MergePass(regs, st, j + 1)

\* the while loop: passes until one merges nothing
RECURSIVE GrowRegion(_, _, _)
GrowRegion(regs, cur, usedSet) ==
    LET st == MergePass(regs, [current |-> cur, used |-> usedSet, mergedNew |-> FALSE], 1)
    IN IF st.mergedNew THEN GrowRegion(regs, st.current, st.used) ELSE st

\* the outer for loop from index k on
RECURSIVE MergeFrom(_, _, _, _)
MergeFrom(regs, k, usedSet, out) ==
    IF k > Len(regs) THEN out
    ELSE IF k \in usedSet THEN MergeFrom(regs, k + 1, usedSet, out)
    ELSE LET st == GrowRegion(regs, regs[k], usedSet \cup {k})
         IN MergeFrom(regs, k + 1, st.used, Append(out, st.current))

\* the whole call
mergeOverlappingRegions(regs) ==
    IF Len(regs) = 0 THEN <<>> ELSE MergeFrom(regs, 1, {}, <<>>)

\* Input regions: boxes that pass the noise filter, on a coarse lattice.
RegionPool ==
    {[x |-> px, y |-> py, width |-> s[1], height |-> s[2]] :
        px \in {0, 8, 16}, py \in {0, 8}, s \in {<<6, 6>>, <<22, 6>>, <<6, 22>>}}

\* at most this many input regions
MaxRegions == 3

RegionLists == UNION {[1..n -> RegionPool] : n \in 0..MaxRegions}

InitMerge ==
    /\ regions \in RegionLists
    /\ mi = 1 /\ current = NoRegion /\ used = {} /\ merged = <<>>
    /\ mpc = "for"
    /\ ParseIdle /\ DetectIdle /\ OcrIdle /\ UploadIdle

\* if (regions.length === 0) return []
ReturnEmpty ==
    /\ mpc = "for"
    /\ Len(regions) = 0
    /\ mpc' = "done"
    /\ UNCHANGED <<regions, mi, current, used, merged>>
    /\ UNCHANGED <<parseVars, detectVars, ocrVars, uploadVars>>

\* if (used.has(i)) continue
SkipUsed ==
    /\ mpc = "for"
    /\ mi <= Len(regions)
    /\ mi \in used
    /\ mi' = mi + 1
    /\ UNCHANGED <<regions, current, used, merged, mpc>>
    /\ UNCHANGED <<parseVars, detectVars, ocrVars, uploadVars>>

\* current = { ...regions[i] }; used.add(i); mergedNew = true
StartRegion ==
    /\ mpc = "for"
    /\ mi <= Len(regions)
    /\ mi \notin used
    /\ current' = regions[mi]
    /\ used' = used \cup {mi}
    /\ mpc' = "while"
    /\ UNCHANGED <<regions, mi, merged>>
    /\ UNCHANGED <<parseVars, detectVars, ocrVars, uploadVars>>

\* One pass of the while loop.  A pass that merged is followed by another;
\* after a pass that merged nothing, merged.push(current) and the next i.
Pass ==
    /\ mpc = "while"
    /\ LET st == MergePass(regions,
                           [current |-> current, used |-> used, mergedNew |-> FALSE], 1)
       IN /\ current' = st.current
          /\ used' = st.used
          /\ merged' = IF st.mergedNew THEN merged ELSE Append(merged, st.current)
          /\ mi' = IF st.mergedNew THEN mi ELSE mi + 1
          /\ mpc' = IF st.mergedNew THEN "while" ELSE "for"
    /\ UNCHANGED regions
    /\ UNCHANGED <<parseVars, detectVars, ocrVars, uploadVars>>

\* return merged
ReturnMerged ==
    /\ mpc = "for"
    /\ Len(regions) > 0
    /\ mi > Len(regions)
    /\ mpc' = "done"
    /\ UNCHANGED <<regions, mi, current, used, merged>>
    /\ UNCHANGED <<parseVars, detectVars, ocrVars, uploadVars>>

NextMerge == ReturnEmpty \/ SkipUsed \/ StartRegion \/ Pass \/ ReturnMerged

SpecMerge == InitMerge /\ [][NextMerge]_vars

---------------------------------------------------------------------------
(* CanvasStrategy.detectRedRegions                                         *)
(*                                                                         *)
(* image maps each pixel <<x, y>> to its <<r, g, b>>; visited holds pixels *)
(* where the code holds their indices y * width + x.                       *)

\* the size of the images
ImageWidth == 8
ImageHeight == 8

Pixels == (0..(ImageWidth - 1)) \X (0..(ImageHeight - 1))

\* lines 277-279 with the threshold of the red channel included
isRedFrom150(r, g, b) == r >= 150 /\ g < 100 /\ b < 100

isRed(r, g, b) == r > 150 /\ g < 100 /\ b < 100

IsRedAt(img, p) == isRed(img[p][1], img[p][2], img[p][3])

\* Shapes drawn on the images: an L of two strokes n pixels long with its
\* corner at the bottom left, a horizontal stroke, and a single pixel (the
\* pixel <<6, 6>> touches the end of the L at <<0, 0>> by its corner only).
Ell(x0, y0, n) ==
    {<<x0, y0 + k>> : k \in 0..(n - 1)} \cup {<<x0 + k, y0 + n - 1>> : k \in 0..(n - 1)}

Stroke(x0, y0, n) == {<<x0 + k, y0>> : k \in 0..(n - 1)}

Shapes ==
    {Ell(x0, y0, 6) : x0 \in 0..2, y0 \in 0..2}
        \cup {Ell(0, 0, 8), Stroke(0, 0, 6), Stroke(1, 3, 6), Stroke(4, 4, 1), Stroke(7, 0, 1),
              Stroke(6, 6, 1)}

\* at most this many shapes on an image
MaxShapes == 2

\* ink colours on either side of the thresholds of isRed, on white
Inks == {<<220, 40, 40>>, <<151, 99, 99>>, <<150, 99, 99>>, <<220, 100, 40>>}

Paint(shape, ink) ==
    [p \in Pixels |-> IF p \in shape THEN ink ELSE <<255, 255, 255>>]

Images ==
    {Paint(UNION drawn, ink) :
        drawn \in {d \in SUBSET Shapes : Cardinality(d) <= MaxShapes}, ink \in Inks}

\* the scan position after <<x, y>>: x += 2 in the row, then y += 2
NextScan(p) ==
    IF p[1] + 2 < ImageWidth THEN <<p[1] + 2, p[2]>> ELSE <<0, p[2] + 2>>

InImage(p) == p[1] >= 0 /\ p[1] < ImageWidth /\ p[2] >= 0 /\ p[2] < ImageHeight

InitDetect ==
    /\ image \in Images
    /\ visited = {} /\ stack = <<>> /\ box = NoBox
    /\ scan = <<0, 0>> /\ found = <<>>
    /\ dpc = "scan"
    /\ ParseIdle /\ MergeIdle /\ OcrIdle /\ UploadIdle

\* a scan position that is not red, or is visited already
ScanPass ==
    /\ dpc = "scan"
    /\ scan[2] < ImageHeight
    /\ ~(IsRedAt(image, scan) /\ scan \notin visited)
    /\ scan' = NextScan(scan)
    /\ UNCHANGED <<image, visited, stack, box, found, dpc>>
    /\ UNCHANGED <<parseVars, mergeVars, ocrVars, uploadVars>>

\* findCluster(x, y) is entered: the stack holds the seed
ScanSeed ==
    /\ dpc = "scan"
    /\ scan[2] < ImageHeight
    /\ IsRedAt(image, scan) /\ scan \notin visited
    /\ stack' = <<scan>>
    /\ box' = [minX |-> scan[1], maxX |-> scan[1], minY |-> scan[2], maxY |-> scan[2]]
    /\ dpc' = "fill"
    /\ UNCHANGED <<image, visited, scan, found>>
    /\ UNCHANGED <<parseVars, mergeVars, ocrVars, uploadVars>>

\* stack.pop() of a pixel that is visited, outside the image or not red
FillSkip ==
    /\ dpc = "fill"
    /\ stack # <<>>
    /\ LET p == stack[Len(stack)]
       IN IF p \in visited THEN TRUE
          ELSE IF ~InImage(p) THEN TRUE
          ELSE ~IsRedAt(image, p)
    /\ stack' = SubSeq(stack, 1, Len(stack) - 1)
    /\ UNCHANGED <<image, visited, box, scan, found, dpc>>
    /\ UNCHANGED <<parseVars, mergeVars, ocrVars, uploadVars>>

\* lines 287-312 with the four diagonal neighbours pushed as well
FillVisitEightConnected ==
    /\ dpc = "fill"
    /\ stack # <<>>
    /\ LET p == stack[Len(stack)]
       IN /\ p \notin visited /\ InImage(p) /\ IsRedAt(image, p)
          /\ visited' = visited \cup {p}
          /\ box' = [minX |-> Min2(box.minX, p[1]), maxX |-> Max2(box.maxX, p[1]),
                     minY |-> Min2(box.minY, p[2]), maxY |-> Max2(box.maxY, p[2])]
          /\ stack' = SubSeq(stack, 1, Len(stack) - 1)
                         \o <<<<p[1] - 1, p[2]>>, <<p[1] + 1, p[2]>>,
                              <<p[1], p[2] - 1>>, <<p[1], p[2] + 1>>,
                              <<p[1] - 1, p[2] - 1>>, <<p[1] + 1, p[2] - 1>>,
                              <<p[1] - 1, p[2] + 1>>, <<p[1] + 1, p[2] + 1>>>>
    /\ UNCHANGED <<image, scan, found, dpc>>
    /\ UNCHANGED <<parseVars, mergeVars, ocrVars, uploadVars>>

\* stack.pop() of an unvisited red pixel
FillVisit ==
    /\ dpc = "fill"
    /\ stack # <<>>
    /\ LET p == stack[Len(stack)]
       IN /\ p \notin visited /\ InImage(p) /\ IsRedAt(image, p)
          /\ visited' = visited \cup {p}
          /\ box' = [minX |-> Min2(box.minX, p[1]), maxX |-> Max2(box.maxX, p[1]),
                     minY |-> Min2(box.minY, p[2]), maxY |-> Max2(box.maxY, p[2])]
          /\ stack' = SubSeq(stack, 1, Len(stack) - 1)
                         \o <<<<p[1] - 1, p[2]>>, <<p[1] + 1, p[2]>>,
                              <<p[1], p[2] - 1>>, <<p[1], p[2] + 1>>>>
    /\ UNCHANGED <<image, scan, found, dpc>>
    /\ UNCHANGED <<parseVars, mergeVars, ocrVars, uploadVars>>

\* findCluster returns; the region is kept when it passes the noise filter
FillReturn ==
    /\ dpc = "fill"
    /\ stack = <<>>
    /\ LET region == [x |-> box.minX, y |-> box.minY,
                      width |-> box.maxX - box.minX + 1,
                      height |-> box.maxY - box.minY + 1]
       IN found' = IF region.width > 5 /\ region.height > 5
                   THEN Append(found, region) ELSE found
    /\ scan' = NextScan(scan)
    /\ dpc' = "scan"
    /\ UNCHANGED <<image, visited, stack, box>>
    /\ UNCHANGED <<parseVars, mergeVars, ocrVars, uploadVars>>

\* return this.mergeOverlappingRegions(regions)
ReturnRegions ==
    /\ dpc = "scan"
    /\ scan[2] >= ImageHeight
    /\ merged' = mergeOverlappingRegions(found)
    /\ dpc' = "done"
    /\ UNCHANGED <<image, visited, stack, box, scan, found>>
    /\ UNCHANGED <<regions, mi, current, used, mpc>>
    /\ UNCHANGED <<parseVars, ocrVars, uploadVars>>

NextDetect == ScanPass \/ ScanSeed \/ FillSkip \/ FillVisit \/ FillReturn \/ ReturnRegions

SpecDetect == InitDetect /\ [][NextDetect]_vars

---------------------------------------------------------------------------
(* detectRedRegions with the loops of mergeOverlappingRegions run step by  *)
(* step: the scan and the fills as above, then the merge machine on the    *)
(* regions the scan has pushed.                                            *)

\* return this.mergeOverlappingRegions(regions): the call is entered
CallMerge ==
    /\ dpc = "scan"
    /\ scan[2] >= ImageHeight
    /\ regions' = found
    /\ mi' = 1 /\ current' = NoRegion /\ used' = {} /\ merged' = <<>>
    /\ mpc' = "for"
    /\ dpc' = "merge"
    /\ UNCHANGED <<image, visited, stack, box, scan, found>>
    /\ UNCHANGED <<parseVars, ocrVars, uploadVars>>

\* mergeOverlappingRegions has returned, and so does detectRedRegions
MergeReturned ==
    /\ dpc = "merge"
    /\ mpc = "done"
    /\ dpc' = "done"
    /\ UNCHANGED <<image, visited, stack, box, scan, found>>
    /\ UNCHANGED <<parseVars, mergeVars, ocrVars, uploadVars>>

NextDetectMerge ==
    \/ ScanPass \/ ScanSeed \/ FillSkip \/ FillVisit \/ FillReturn
    \/ CallMerge \/ ReturnEmpty \/ SkipUsed \/ StartRegion \/ Pass \/ ReturnMerged
    \/ MergeReturned

\* the function runs on: a step that can be taken is taken
SpecTerminate == InitDetect /\ [][NextDetectMerge]_vars /\ WF_vars(NextDetectMerge)

---------------------------------------------------------------------------
(* CalendarProcessor.handleImageUpload (components, lines 30-94) as a      *)
(* state machine.  The handler runs from one await to the next; what the   *)
(* browser does with the image and what the detection strategy returns are *)
(* inputs; extractTextFromRegions and parseCalendarFromOCR are the         *)
(* machines above, started where the handler calls them.  The message of   *)
(* the ProcessingState is left out.                                        *)

\* at most this many regions come back from the detection
MaxUploadRegions == 2

\* the regions a detection can return: two boxes of one calendar row.  What
\* detectRedRegions returns went through mergeOverlappingRegions, which
\* merges a box equal to an earlier one into it, so a result holds no box
\* twice
DetectedRegionPool ==
    {[x |-> 100, y |-> 150, width |-> 50, height |-> 50],
     [x |-> 160, y |-> 160, width |-> 40, height |-> 40]}

\* the year and month of the component's state (lines 26-27)
UploadRequests == {<<2024, 2>>}

\* the events state before the upload: nothing, or what an earlier upload left
PreviousEvents == <<MakeEvent(1, [year |-> 2024, month |-> 1], DAYSHIFT, 0)>>

SetProcessingState(status, progress) ==
    /\ processingState' = [status |-> status, progress |-> progress]
    /\ statusLog' = Append(statusLog, status)

InitUpload ==
    /\ selectedCalendarType \in CalendarTypes
    /\ processingState = NoProcessing
    /\ eventsState \in {<<>>, PreviousEvents}
    /\ statusLog = <<>>
    /\ upc = "start"
    /\ \E r \in UploadRequests : year = r[1] /\ month = r[2]
    /\ ocrResults = <<>> /\ calendarType = "standard"
    /\ sortedResults = <<>> /\ datesWithWeeks = <<>> /\ i = 0
    /\ tracker = InitTracker /\ events = <<>> /\ dated = NoDated
    /\ parsedData = NoData
    /\ pc = "idle"
    /\ MergeIdle /\ DetectIdle /\ OcrIdle

\* lines 32-39: status detecting, then the image is awaited
StartUpload ==
    /\ upc = "start"
    /\ SetProcessingState("detecting", 10)
    /\ upc' = "loadImage"
    /\ UNCHANGED <<selectedCalendarType, eventsState>>
    /\ UNCHANGED <<parseVars, mergeVars, detectVars, ocrVars>>

\* lines 39-50: the image has loaded; the canvas is drawn and the detection
\* is awaited
ImageLoaded ==
    /\ upc = "loadImage"
    /\ upc' = "detect"
    /\ UNCHANGED <<selectedCalendarType, processingState, eventsState, statusLog>>
    /\ UNCHANGED <<parseVars, mergeVars, detectVars, ocrVars>>

\* lines 50-68: the detection has returned its regions; without regions the
\* handler reports an error and returns, else extractTextFromRegions is
\* called with them and awaited
RegionsDetected ==
    /\ upc = "detect"
    /\ \E n \in 0..MaxUploadRegions :
          \E rs \in {r \in [1..n -> DetectedRegionPool] :
                        \A a \in 1..n : \A b \in 1..n : a # b => r[a] # r[b]},
             outcomes \in [1..n -> Outcomes] :
             IF n = 0
             THEN /\ SetProcessingState("error", 0)
                  /\ upc' = "returned"
                  /\ UNCHANGED ocrVars
             ELSE /\ SetProcessingState("extracting", 40)
                  /\ upc' = "extract"
                  /\ ocrRegions' = rs /\ tesseract' = outcomes
                  /\ ri' = 0 /\ ocrOutput' = <<>> /\ opc' = "load"
    /\ UNCHANGED <<selectedCalendarType, eventsState>>
    /\ UNCHANGED <<parseVars, mergeVars, detectVars>>

\* lines 87-93 without the setProcessingState of the catch block
CatchErrorSilently ==
    /\ IF upc \in {"loadImage", "detect"} THEN TRUE
       ELSE upc = "extract" /\ opc = "rejected"
    /\ upc' = "returned"
    /\ UNCHANGED <<selectedCalendarType, processingState, eventsState, statusLog>>
    /\ UNCHANGED <<parseVars, mergeVars, detectVars, ocrVars>>

\* lines 87-93: an awaited promise has rejected (loadImage, detectRedRegions
\* or extractTextFromRegions); the catch block reports the error
CatchError ==
    /\ IF upc \in {"loadImage", "detect"} THEN TRUE
       ELSE upc = "extract" /\ opc = "rejected"
    /\ SetProcessingState("error", 0)
    /\ upc' = "returned"
    /\ UNCHANGED <<selectedCalendarType, eventsState>>
    /\ UNCHANGED <<parseVars, mergeVars, detectVars, ocrVars>>

\* lines 70-77: the OCR results have arrived; status parsing, and
\* parseCalendarFromOCR(ocrResults, year, month) is called with its
\* calendarType left to the default of the parameter ('standard', part_005
\* line 15)
OcrResolved ==
    /\ upc = "extract" /\ opc = "returned"
    /\ SetProcessingState("parsing", 70)
    /\ ocrResults' = ocrOutput
    /\ calendarType' = "standard"
    /\ pc' = "start"
    /\ upc' = "parse"
    /\ UNCHANGED <<year, month, sortedResults, datesWithWeeks, i, tracker, events,
                   dated, parsedData>>
    /\ UNCHANGED <<selectedCalendarType, eventsState>>
    /\ UNCHANGED <<mergeVars, detectVars, ocrVars>>

\* lines 79-84: the parser has returned; setEvents, status complete
EventsParsed ==
    /\ upc = "parse" /\ pc = "done"
    /\ eventsState' = parsedData.events
    /\ SetProcessingState("complete", 100)
    /\ upc' = "returned"
    /\ UNCHANGED selectedCalendarType
    /\ UNCHANGED <<parseVars, mergeVars, detectVars, ocrVars>>

NextUpload ==
    \/ StartUpload \/ ImageLoaded \/ RegionsDetected \/ CatchError
    \/ LoadImage \/ Recognize \/ ReturnResults
    \/ OcrResolved \/ SortAndAssign \/ Iterate \/ Return \/ EventsParsed

\* every awaited step settles: the promise resolves or rejects and the
\* handler goes on
SpecUpload == InitUpload /\ [][NextUpload]_vars /\ WF_vars(NextUpload)

---------------------------------------------------------------------------
(* Claims about parseCalendarFromOCR (checked under Spec)                  *)

\* C1: every event's stored date, after the Date constructor has normalised
\* it, lies in the requested month, the month before it or the month after
\* it, with December/January rollover.
C1_StoredDateWithinOneMonth ==
    \A n \in 1..Len(events) :
        Abs((events[n].date.year * 12 + events[n].date.month)
            - (year * 12 + (month - 1))) <= 1

\* C2: the sequence of (date, title, startTime, endTime) is the same for
\* every permutation of the fragment list.  Every permutation is a product
\* of transpositions, so the result is stated for each exchange of two
\* positions of the list the call was given.
C2_SameEventsForEveryOrder ==
    pc = "done" =>
        \A a \in 1..Len(ocrResults) : \A b \in (a + 1)..Len(ocrResults) :
            LET swapped == [ocrResults EXCEPT ![a] = ocrResults[b],
                                             ![b] = ocrResults[a]]
                other == parseCalendarFromOCR(swapped, year, month, calendarType)
            IN /\ Len(other) = Len(events)
               /\ \A n \in 1..Len(events) :
                     /\ other[n].date = events[n].date
                     /\ other[n].title = events[n].title
                     /\ other[n].startTime = events[n].startTime
                     /\ other[n].endTime = events[n].endTime

\* C6: in jojo mode every event is titled exactly nightshift (the text of its
\* fragment holds a C in either case or a moon glyph) or exactly dayshift.
C6_JojoTitlesAreShifts ==
    calendarType = "jojo" =>
        \A n \in 1..Len(events) :
            LET text == sortedResults[events[n].from].text
            IN events[n].title =
                  IF HasC(text) \/ HasMoon(text) THEN NIGHTSHIFT ELSE DAYSHIFT

---------------------------------------------------------------------------
(* Claims about the month state machine (checked under SpecStream)         *)

C8_LargeDaysOfFirstWeekArePrevious ==
    [][(/\ dated' # dated
        /\ ~tracker.hasBeenInCurrentMonth
        /\ (dated.day = 0 \/ dated.monthOffset = -1)
        /\ dated'.weekIndex = 0
        /\ dated'.day >= 25) => dated'.monthOffset = -1]_vars

C10_FreshLastWeekIsNext ==
    [][(/\ dated' # dated
        /\ dated'.weekIndex # tracker.currentWeek
        /\ dated'.weekIndex >= 4
        /\ dated'.day <= 5) => dated'.monthOffset = 1]_vars

\* the number of days of the requested months, from the calendar
RequestedDays ==
    IF month = 2 THEN (IF year = 2024 THEN 29 ELSE 28)
    ELSE IF month = 4 THEN 30
    ELSE 31

\* C35: at weekIndex >= 4 a fragment whose day exceeds the number of days of
\* the requested month (29 for February 2024, 28 for February 2023) is dated
\* with the same day of the next month; a day that does not exceed it is
\* given the next month only where one of the other next-month rules applies
\* (a drop from 25+ to 5 or less, a day up to 10 after the end of the month
\* was seen, a day up to 5 as the first day read, the day after a day of the
\* next month).
C35_DaysBeyondTheMonthAreNext ==
    [][dated'.weekIndex >= 4 =>
          LET day == dated'.day
              actual == ActualMonth(year, month, dated'.monthOffset)
          IN /\ day > RequestedDays =>
                   /\ dated'.monthOffset = 1
                   /\ JSDate(actual.year, actual.month - 1, day)
                        = [year |-> IF month = 12 THEN year + 1 ELSE year,
                           month |-> month % 12,
                           date |-> day]
             /\ (day <= RequestedDays /\ dated'.monthOffset = 1) =>
                   \/ tracker.lastDay >= 25 /\ day <= 5
                   \/ tracker.hasSeenEndOfMonth /\ day <= 10
                   \/ tracker.lastDay = 0 /\ day <= 5
                   \/ tracker.isInNextMonth /\ day = tracker.lastDay + 1]_vars

\* day 29 read at week 4 of February 2023 after a 28: dated in March
C35_Witness ==
    /\ year = 2023 /\ month = 2
    /\ dated.day = 29 /\ dated.weekIndex = 4 /\ dated.lastDay = 28
    /\ dated.monthOffset = 1

---------------------------------------------------------------------------
(* Claims about mergeOverlappingRegions (checked under SpecMerge)          *)

\* C3: no two distinct regions returned by mergeOverlappingRegions overlap
\* or touch under regionsOverlap.
C3_NoTwoReturnedRegionsOverlap ==
    mpc = "done" =>
        \A a \in 1..Len(merged) : \A b \in 1..Len(merged) :
            a # b => ~regionsOverlap(merged[a], merged[b])

\* C5: the set of regions returned by mergeOverlappingRegions is the same
\* for every ordering of the input regions.
C5_SameSetForEveryOrder ==
    mpc = "done" =>
        \A f \in [1..Len(regions) -> 1..Len(regions)] :
            (\A a \in 1..Len(regions) : \E b \in 1..Len(regions) : f[b] = a) =>
                LET reordered == [k \in 1..Len(regions) |-> regions[f[k]]]
                    other == mergeOverlappingRegions(reordered)
                IN {other[k] : k \in 1..Len(other)}
                      = {merged[k] : k \in 1..Len(merged)}

---------------------------------------------------------------------------
(* Claims about detectRedRegions (checked under SpecDetect)                *)

\* the pixels of S reachable from the pixels of c by steps to a 4-neighbour
RECURSIVE Connected4(_, _)
Connected4(S, c) ==
    LET more == {p \in S \ c : \E q \in c : Abs(p[1] - q[1]) + Abs(p[2] - q[2]) = 1}
    IN IF more = {} THEN c ELSE Connected4(S, c \cup more)

\* C4: every 4-connected component of red pixels whose bounding box is wider
\* and taller than 5 pixels is contained in some returned region, wherever
\* it lies relative to the scan grid.
C4_EveryMarkedComponentReported ==
    dpc = "done" =>
        \A seed \in {p \in Pixels : IsRedAt(image, p)} :
            LET comp == Connected4({p \in Pixels : IsRedAt(image, p)}, {seed})
                xs == {p[1] : p \in comp}
                ys == {p[2] : p \in comp}
                wide == \E a \in xs : \E b \in xs : b - a + 1 > 5
                tall == \E a \in ys : \E b \in ys : b - a + 1 > 5
            IN (wide /\ tall) =>
                  \E k \in 1..Len(merged) :
                      \A p \in comp :
                          /\ merged[k].x <= p[1] /\ p[1] < merged[k].x + merged[k].width
                          /\ merged[k].y <= p[2] /\ p[2] < merged[k].y + merged[k].height


\* a standalone token of one or two digits whose value is in 1..31
HasDayToken(text) ==
    \E p \in 1..Len(text) : \E n \in {1, 2} :
        /\ p + n - 1 <= Len(text)
        /\ \A k \in p..(p + n - 1) : IsDigit(text[k])
        /\ (p = 1 \/ ~IsWord(text[p - 1]))
        /\ (p + n - 1 = Len(text) \/ ~IsWord(text[p + n]))
        /\ LET value == IF n = 1 THEN DigitValue(text[p])
                        ELSE 10 * DigitValue(text[p]) + DigitValue(text[p + 1])
           IN value >= 1 /\ value <= 31

\* C14: the iteration over a fragment whose text holds no standalone one- or
\* two-digit token in 1..31 pushes no event and leaves the month tracking
\* state as it was.
C14_UndatedFragmentChangesNothing ==
    [][(/\ pc = "loop"
        /\ i <= Len(sortedResults)
        /\ ~HasDayToken(sortedResults[i].text))
       => (tracker' = tracker /\ events' = events)]_vars

\* the loop has passed "Lunch" or "45" with a day already tracked, and no
\* event stems from a fragment without a day token
C14_Witness ==
    /\ pc = "loop"
    /\ i > 1
    /\ ~HasDayToken(sortedResults[i - 1].text)
    /\ tracker.lastDay > 0
    /\ events # <<>>
    /\ \A n \in 1..Len(events) : HasDayToken(sortedResults[events[n].from].text)

\* C15: in jojo mode every fragment of the list that holds a day number in
\* 1..31 (the entries that only mark the rows of the calendar aside) is the
\* origin of exactly one event of the result.
C15_EveryMarkedDateBecomesAnEvent ==
    (pc = "done" /\ calendarType = "jojo") =>
        \A k \in 1..Len(sortedResults) :
            (HasDayToken(sortedResults[k].text) /\ ~IsDummyEntry(sortedResults[k]))
                => Cardinality({n \in 1..Len(events) : events[n].from = k}) = 1

\* fragment k of the canonical order has a day number, at most one character
\* beside its day token, and no following fragment that is accepted as its
\* title (same row or directly below, nearby column, not a bare number)
Untitled(sorted, k) ==
    /\ HasDayToken(sorted[k].text)
    /\ Len(AfterDate(sorted[k].text)) <= 1
    /\ IF k = Len(sorted) THEN TRUE
       ELSE LET yDiff == Abs(sorted[k + 1].region.y - sorted[k].region.y)
                xDiff == Abs(sorted[k + 1].region.x - sorted[k].region.x)
            IN \/ ~(yDiff < 60 \/ (yDiff > 0 /\ yDiff < 100 /\ xDiff < 50))
               \/ ~(xDiff < 150)
               \/ IsJustANumber(sorted[k + 1].text)

\* C16: in standard mode the iteration over a fragment that has a day number
\* but no title pushes no event.
C16_UntitledFragmentGivesNoEvent ==
    [][(/\ pc = "loop"
        /\ i <= Len(sortedResults)
        /\ calendarType = "standard"
        /\ Untitled(sortedResults, i))
       => events' = events]_vars

\* the loop has dated a bare "15" that nothing follows as a title, and has
\* pushed no event for it
C16_Witness ==
    /\ pc = "loop"
    /\ calendarType = "standard"
    /\ i > 1
    /\ sortedResults[i - 1].text = <<"1", "5">>
    /\ Untitled(sortedResults, i - 1)
    /\ tracker.lastDay = 15
    /\ \A n \in 1..Len(events) : events[n].from # i - 1

\* C25: the iteration over a fragment whose first number token is a day in
\* 1..31 leaves lastDay at that day.
C25_EveryDayFragmentSetsLastDay ==
    [][(/\ pc = "loop"
        /\ i <= Len(sortedResults)
        /\ DateMatch(sortedResults[i].text) # 0
        /\ ParseDay(sortedResults[i].text) \in 1..31)
       => tracker'.lastDay = ParseDay(sortedResults[i].text)]_vars

\* C29: an event whose fragment lies 50 or more above the fragment of
\* another event stands before it in the events list.
C29_EventsInRowMajorOrder ==
    \A n \in 1..Len(events) : \A m \in 1..Len(events) :
        (sortedResults[events[n].from].region.y + ROW_TOLERANCE
             <= sortedResults[events[m].from].region.y) => n < m

\* C31: no two events of one result have both the same date and the same
\* stored title; stated for the events whose day exists in their month, so
\* that the stored date is the day the duplicate test compares.
C31_NoTwoEventsOfOneDateAndTitle ==
    \A a \in 1..Len(events) : \A b \in 1..Len(events) :
        (a # b /\ events[a].date.date = events[a].id[1]
               /\ events[b].date.date = events[b].id[1])
            => ~(/\ events[a].date = events[b].date
                 /\ events[a].title = events[b].title)

\* C32: every produced event has a non-empty stored title.
C32_StoredTitleNotEmpty ==
    \A n \in 1..Len(events) : events[n].title # <<>>

---------------------------------------------------------------------------
(* Claims about the whole call and its identifiers (checked under SpecCall) *)

\* C11: within one returned result of a call with a month in 1..12 no two
\* events share an id, whatever the clock and the random source deliver.
C11_NoTwoEventsShareAnId ==
    (pc = "done" /\ month \in 1..12) =>
        \A a \in 1..Len(parsedData.events) : \A b \in 1..Len(parsedData.events) :
            a # b => parsedData.events[a].id # parsedData.events[b].id

\* C12: a call whose month is outside 1..12 is rejected: it never returns a
\* ParsedCalendarData and never produces an event.
C12_InvalidMonthRejected ==
    month \notin 1..12 => (pc # "done" /\ events = <<>>)

C20_ReturnsRequestedMonth ==
    pc = "done" =>
        /\ parsedData.year = year
        /\ parsedData.month = month
        /\ (ocrResults = <<>> => parsedData.events = <<>>)

\* the call returned for an empty fragment list
C20_Witness ==
    /\ pc = "done"
    /\ ocrResults = <<>>
    /\ month \in 1..12
    /\ parsedData = [year |-> year, month |-> month, events |-> <<>>]



---------------------------------------------------------------------------
(* Claims about the event built from a dated fragment (checked under       *)
(* SpecEvent)                                                              *)

\* C13: the month and year written into the event are December of year - 1
\* for offset -1 on January, January of year + 1 for offset +1 on December,
\* and month + offset of the same year for every other month and offset.
C13_ActualMonthRollsOverTheYear ==
    events # <<>> =>
        LET actualMonth == events[1].id[2]
            actualYear == events[1].id[3]
            monthOffset == dated.monthOffset
        IN IF month = 1 /\ monthOffset = -1
           THEN actualMonth = 12 /\ actualYear = year - 1
           ELSE IF month = 12 /\ monthOffset = 1
           THEN actualMonth = 1 /\ actualYear = year + 1
           ELSE actualMonth = month + monthOffset /\ actualYear = year

\* an event of a January request dated in the December before it
C13_Witness ==
    /\ events # <<>>
    /\ month = 1 /\ dated.monthOffset = -1
    /\ events[1].id = <<dated.day, 12, year - 1>>

\* C26: the stored date of every event is the extracted day in the month and
\* year the state machine chose (the ones written into the id).
C26_StoredDateIsTheChosenDay ==
    \A n \in 1..Len(events) :
        events[n].date = [year |-> events[n].id[3],
                          month |-> events[n].id[2] - 1,
                          date |-> events[n].id[1]]



---------------------------------------------------------------------------
(* Claims about the times of an event (checked under SpecTime)             *)

\* the rendering the rules give: two digits of the hour after PM has added
\* 12 to every hour but 12 and AM has turned 12 into 0, a colon, the minutes
Rendered(t) ==
    LET h == IF t.period.kind = "PM" /\ t.hour.value # 12 THEN t.hour.value + 12
             ELSE IF t.period.kind = "AM" /\ t.hour.value = 12 THEN 0
             ELSE t.hour.value
    IN <<DigitChars[(h \div 10) + 1], DigitChars[(h % 10) + 1], ":">> \o t.minutes

\* C17: the event of a fragment "15 Meeting <time> [<time>]" has the first
\* time as startTime and the second as endTime (none when there is one time
\* only), each as two-digit hour, colon, minutes, with PM adding 12 to every
\* hour but 12, AM turning 12 into 00 and no AM/PM keeping the hour, and the
\* title "Meeting"; "Meeting 9:00 AM 10:30 AM" gives 09:00 and 10:30.
C17_TimesOfTheTitle ==
    pc = "done" =>
        /\ Len(events) = 1
        /\ events[1].title = <<"M", "e", "e", "t", "i", "n", "g">>
        /\ \A first \in Times : \A second \in Times \cup {<<>>} :
              ocrResults[1].text = TimedText(first, second) =>
                  /\ events[1].startTime = Rendered(first)
                  /\ events[1].endTime =
                         IF second = <<>> THEN <<>> ELSE Rendered(second)
        /\ ocrResults[1].text = <<"1", "5", " ", "M", "e", "e", "t", "i", "n", "g", " ",
                                  "9", ":", "0", "0", " ", "A", "M", " ",
                                  "1", "0", ":", "3", "0", " ", "A", "M">>
              => /\ events[1].startTime = <<"0", "9", ":", "0", "0">>
                 /\ events[1].endTime = <<"1", "0", ":", "3", "0">>

\* the call returned for "15 Meeting 12:30am 12:00 PM": 00:30 to 12:00
C17_Witness ==
    /\ pc = "done"
    /\ ocrResults[1].text = <<"1", "5", " ", "M", "e", "e", "t", "i", "n", "g", " ",
                              "1", "2", ":", "3", "0", "a", "m", " ",
                              "1", "2", ":", "0", "0", " ", "P", "M">>
    /\ Len(events) = 1
    /\ events[1].startTime = <<"0", "0", ":", "3", "0">>
    /\ events[1].endTime = <<"1", "2", ":", "0", "0">>



\* a time of day written HH:MM with the hour in 00..23, the minutes in 00..59
ValidTime(t) ==
    /\ Len(t) = 5
    /\ t[3] = ":"
    /\ \A p \in {1, 2, 4, 5} : IsDigit(t[p])
    /\ 10 * DigitValue(t[1]) + DigitValue(t[2]) <= 23
    /\ 10 * DigitValue(t[4]) + DigitValue(t[5]) <= 59

\* C34: every startTime and every endTime stored on an event is a valid
\* 24-hour time.
C34_StoredTimesAreValid ==
    \A n \in 1..Len(events) :
        /\ events[n].startTime # <<>> => ValidTime(events[n].startTime)
        /\ events[n].endTime # <<>> => ValidTime(events[n].endTime)

---------------------------------------------------------------------------
(* Claims about extractTextFromRegions (checked under SpecOcr)             *)

\* C18: the list the call returns holds, in the order of the regions, one
\* fragment for each region whose recognition delivered a text that is not
\* white space only, with that text trimmed and that region; the regions
\* whose recognition threw or delivered a blank text have none, wherever in
\* the list they stand.
C18_OneFragmentPerRecognisedRegion ==
    opc = "returned" =>
        LET kept == {k \in 1..Len(ocrRegions) :
                        /\ ~tesseract[k].throws
                        /\ \E c \in 1..Len(tesseract[k].text) :
                               ~IsSpace(tesseract[k].text[c])}
        IN /\ Len(ocrOutput) = Cardinality(kept)
           /\ \E f \in [1..Len(ocrOutput) -> kept] :
                 /\ \A a \in 1..Len(ocrOutput) : \A b \in 1..Len(ocrOutput) :
                        a < b => f[a] < f[b]
                 /\ \A n \in 1..Len(ocrOutput) :
                        /\ ocrOutput[n].region = ocrRegions[f[n]]
                        /\ ocrOutput[n].text = Trim(tesseract[f[n]].text)

\* the call returned two fragments although the recognition of the region
\* between them threw
C18_Witness ==
    /\ opc = "returned"
    /\ Len(ocrRegions) = 3
    /\ tesseract[2].throws
    /\ Len(ocrOutput) = 2
    /\ ocrOutput[1].region = ocrRegions[1]
    /\ ocrOutput[2].region = ocrRegions[3]



---------------------------------------------------------------------------
(* Further claims about detectRedRegions (checked under SpecDetect)        *)

\* C21: on an image without a pixel that has r > 150, g < 100 and b < 100
\* the scan never enters findCluster, pushes no region, and the call returns
\* the empty list.
C21_NoRedPixelNoRegion ==
    (\A p \in Pixels : ~(image[p][1] > 150 /\ image[p][2] < 100 /\ image[p][3] < 100))
        => /\ dpc \in {"scan", "done"}
           /\ found = <<>>
           /\ (dpc = "done" => merged = <<>>)

\* the call returned the empty list for an image painted with an ink that is
\* just not red
C21_Witness ==
    /\ dpc = "done"
    /\ merged = <<>>
    /\ \E p \in Pixels : image[p] = <<150, 99, 99>>
    /\ \A p \in Pixels : ~(image[p][1] > 150 /\ image[p][2] < 100 /\ image[p][3] < 100)



\* the 4-connected component of red pixels of the image that holds pixel p
Component(p) == Connected4({q \in Pixels : IsRedAt(image, q)}, {p})

---------------------------------------------------------------------------
(* Further claims about the month state machine (checked under SpecStream) *)

\* C22: a fragment with a larger day that is processed right after a fragment
\* that was given the next month is given the next month, too.
C22_NextMonthNeverRegresses ==
    [][(dated.day # 0 /\ dated.monthOffset = 1 /\ dated'.day > dated.day)
       => dated'.monthOffset = 1]_vars

\* C23: a fragment processed while hasBeenInCurrentMonth is set is not given
\* the previous month.
C23_NoPreviousMonthAfterEntering ==
    [][tracker.hasBeenInCurrentMonth => dated'.monthOffset # -1]_vars

\* C24: a fragment with day <= 10 in a row with weekIndex >= 4 that is
\* processed right after a fragment with day >= 24 of a row with
\* weekIndex >= 3 is given the next month.
C24_LowDaysAfterTheTailAreNext ==
    [][(/\ dated.day >= 24 /\ dated.weekIndex >= 3
        /\ dated'.weekIndex >= 4 /\ dated'.day <= 10)
       => dated'.monthOffset = 1]_vars



---------------------------------------------------------------------------
(* Claims about assignWeekIndices (checked under SpecWeeks)                *)

\* C27: when at most six rows were found, the weekIndex of every fragment
\* that got one is the index of a row whose Y is nearest to the fragment's Y.
C27_WeekIndexOfNearestRow ==
    LET rows == Rows(sortedResults)
    IN (pc # "start" /\ Len(rows) <= MAX_WEEKS) =>
          \A k \in DOMAIN datesWithWeeks :
              /\ datesWithWeeks[k].weekIndex + 1 \in 1..Len(rows)
              /\ \A r \in 1..Len(rows) :
                    Abs(rows[datesWithWeeks[k].weekIndex + 1] - sortedResults[k].region.y)
                        <= Abs(rows[r] - sortedResults[k].region.y)

\* C28: when more than six rows were found, a fragment that lies in one of
\* the topmost excess rows (within 50 of it and of no retained row) gets no
\* weekIndex and is the origin of no event.
C28_DiscardedRowsGiveNothing ==
    LET rows == Rows(sortedResults)
        excess == Len(rows) - MAX_WEEKS
    IN (pc # "start" /\ excess > 0) =>
          \A k \in 1..Len(sortedResults) :
              (/\ DateMatch(sortedResults[k].text) # 0
               /\ \E r \in 1..excess : Abs(rows[r] - sortedResults[k].region.y) < 50
               /\ \A r \in (excess + 1)..Len(rows) :
                      Abs(rows[r] - sortedResults[k].region.y) >= 50)
                  => /\ k \notin DOMAIN datesWithWeeks
                     /\ \A n \in 1..Len(events) : events[n].from # k

\* C36: every weekIndex assigned by assignWeekIndices lies in 0..5, also when
\* more than six rows were found.
C36_WeekIndexWithinSixRows ==
    pc # "start" =>
        \A k \in DOMAIN datesWithWeeks :
            datesWithWeeks[k].weekIndex \in 0..(MAX_WEEKS - 1)

\* seven rows were found; a fragment of the topmost row got index 0 and a
\* fragment of the last row index 5
C36_Witness ==
    /\ pc # "start"
    /\ Len(Rows(sortedResults)) > MAX_WEEKS
    /\ \E k \in DOMAIN datesWithWeeks :
          /\ FindRowIndex(Rows(sortedResults), sortedResults[k].region.y) = 0
          /\ datesWithWeeks[k].weekIndex = 0
    /\ \E k \in DOMAIN datesWithWeeks :
          /\ sortedResults[k].region.y = 400
          /\ datesWithWeeks[k].weekIndex = MAX_WEEKS - 1

---------------------------------------------------------------------------
(* Claims about titles taken from the next fragment (checked under         *)
(* SpecWeeks)                                                              *)

\* C30: in standard mode the title of an event whose own fragment has at most
\* one character beside its day token (so the title is the text of the next
\* fragment) holds no day number, and the next fragment is the origin of no
\* event.
C30_AdjacentTextUsedOnce ==
    calendarType = "standard" =>
        \A n \in 1..Len(events) :
            Len(AfterDate(sortedResults[events[n].from].text)) <= 1
                => /\ ~HasDayToken(events[n].title)
                   /\ \A m \in 1..Len(events) : events[m].from # events[n].from + 1



\* C33: in standard mode the iteration over a fragment that is only a day
\* number pushes an event titled with the text of the next fragment exactly
\* when that fragment is (less than 60 away in Y, or below by less than 100
\* with a horizontal offset of at most 50) and less than 150 away
\* horizontally and is not a bare number of one or two digits.
C33_DayOnlyTakesTheNextText ==
    [][(/\ pc = "loop"
        /\ i < Len(sortedResults)
        /\ calendarType = "standard"
        /\ IsJustANumber(sortedResults[i].text)
        /\ ReachesTracker(sortedResults, datesWithWeeks, i))
       => LET result == sortedResults[i]
              nextResult == sortedResults[i + 1]
              yDiff == Abs(nextResult.region.y - result.region.y)
              below == nextResult.region.y - result.region.y
              xDiff == Abs(nextResult.region.x - result.region.x)
              accepted ==
                  /\ yDiff < 60 \/ (below > 0 /\ below < 100 /\ xDiff <= 50)
                  /\ xDiff < 150
                  /\ ~IsJustANumber(nextResult.text)
          IN IF accepted
             THEN /\ Len(events') = Len(events) + 1
                  /\ events'[Len(events')].from = i
                  /\ events'[Len(events')].title = nextResult.text
             ELSE events' = events]_vars


---------------------------------------------------------------------------
(* Claims about handleImageUpload (checked under SpecUpload)               *)

\* C38: when the handler has reached complete, the parser was run in the mode
\* selected in the uploader and the events shown are those of that mode.
C38_SelectedTypeIsTheParserMode ==
    (upc = "returned" /\ processingState.status = "complete") =>
        /\ calendarType = selectedCalendarType
        /\ eventsState =
               parseCalendarFromOCR(ocrResults, year, month, selectedCalendarType)

\* C39: the handler returns with status complete or error; complete is set
\* only after detecting, extracting and parsing were set in that order; the
\* events state changes only in the step that sets complete; and every run
\* whose awaited steps settle does return.
C39_UploadEndsCompleteOrError ==
    /\ [](upc = "returned" => processingState.status \in {"complete", "error"})
    /\ [](processingState.status = "complete"
             => statusLog = <<"detecting", "extracting", "parsing", "complete">>)
    /\ [][eventsState' # eventsState
             => (processingState'.status = "complete" /\ upc' = "returned")]_vars
    /\ <>(upc = "returned")

\* a run that replaced the previous events by a recognised one and reached
\* complete
C39_Witness ==
    /\ upc = "returned"
    /\ processingState = [status |-> "complete", progress |-> 100]
    /\ Len(eventsState) = 1
    /\ eventsState # PreviousEvents
    /\ statusLog = <<"detecting", "extracting", "parsing", "complete">>


---------------------------------------------------------------------------
(* Claims about the termination of detectRedRegions (checked under         *)
(* SpecTerminate)                                                          *)

\* C40: detectRedRegions returns on every image; a fill marks a pixel only
\* if it was not visited, and findCluster returns with its stack empty; a
\* pass of the merge loop that is followed by another pass has added at
\* least one region to the used ones.
C40_DetectRedRegionsTerminates ==
    /\ <>(dpc = "done")
    /\ [][visited' # visited =>
             /\ stack # <<>>
             /\ stack[Len(stack)] \notin visited
             /\ visited' = visited \cup {stack[Len(stack)]}]_vars
    /\ [](dpc \in {"scan", "merge", "done"} => stack = <<>>)
    /\ [][(mpc = "while" /\ mpc' = "while") =>
             (used \subseteq used' /\ used' # used)]_vars

\* the call has returned one region merged from the two the scan pushed
C40_Witness ==
    /\ dpc = "done"
    /\ Len(found) = 2
    /\ Len(merged) = 1
    /\ used = {1, 2}
    /\ visited # {}
    /\ stack = <<>>

=============================================================================
